---- MODULE Spec2Model ----
(***************************************************************************)
(* A model of importpatches.py and exportpatches.py: the import run        *)
(* (commits -> patch files + rewritten spec section) and the export run    *)
(* (spec directives -> commits on a branch, tag, push).                    *)
(*                                                                         *)
(* Text is modelled as TLA+ strings, and the Python string and regular     *)
(* expression operations the scripts use are computed character by         *)
(* character.  Git and the file system are the environment: a commit is a  *)
(* message and a diff, a patch file is an mbox (a sequence of mails, each  *)
(* a message and a diff), a directory is a function from file names to     *)
(* file contents.                                                          *)
(***************************************************************************)
EXTENDS Integers, Sequences, FiniteSets, TLC

(***************************************************************************)
(* Python string operations                                                *)
(***************************************************************************)

Char(s, i) == SubSeq(s, i, i)

DIGITS == "0123456789"

ASCII_LOWER == "abcdefghijklmnopqrstuvwxyz"

ASCII_UPPER == "ABCDEFGHIJKLMNOPQRSTUVWXYZ"

CharsOf(s) == {Char(s, i) : i \in 1..Len(s)}

DIGIT_CHARS == CharsOf(DIGITS)

LOWER_CHARS == CharsOf(ASCII_LOWER)

UPPER_CHARS == CharsOf(ASCII_UPPER)

\* [a-z0-9_-]
SLUG_CHARS == LOWER_CHARS \cup DIGIT_CHARS \cup {"_", "-"}

\* [a-zA-Z0-9._-]
FILENAME_CHARS == LOWER_CHARS \cup UPPER_CHARS \cup DIGIT_CHARS \cup {".", "_", "-"}

\* [0-9.]
VERSION_CHARS == DIGIT_CHARS \cup {"."}

IsDigit(c) == c \in DIGIT_CHARS

\* str.isspace for the characters that occur in the inputs
SPACE_CHARS == {" ", "\n", "\t", "\r"}

IsSpace(c) == c \in SPACE_CHARS

startswith(s, prefix) ==
    Len(s) >= Len(prefix) /\ SubSeq(s, 1, Len(prefix)) = prefix

endswith(s, suffix) ==
    Len(s) >= Len(suffix) /\ SubSeq(s, Len(s) - Len(suffix) + 1, Len(s)) = suffix

removeprefix(self, prefix) ==
    IF startswith(self, prefix)
    THEN SubSeq(self, Len(prefix) + 1, Len(self))
    ELSE self

RECURSIVE rstrip(_)
rstrip(s) ==
    IF s = "" THEN ""
    ELSE IF IsSpace(Char(s, Len(s))) THEN rstrip(SubSeq(s, 1, Len(s) - 1))
    ELSE s

RECURSIVE lstrip(_)
lstrip(s) ==
    IF s = "" THEN ""
    ELSE IF IsSpace(Char(s, 1)) THEN lstrip(SubSeq(s, 2, Len(s)))
    ELSE s

strip(s) == lstrip(rstrip(s))

\* str.strip('-')
RECURSIVE strip_hyphens(_)
strip_hyphens(s) ==
    IF s = "" THEN ""
    ELSE IF Char(s, 1) = "-" THEN strip_hyphens(SubSeq(s, 2, Len(s)))
    ELSE IF Char(s, Len(s)) = "-" THEN strip_hyphens(SubSeq(s, 1, Len(s) - 1))
    ELSE s

\* index of the first occurrence of the one-character string c in s, 0 if none
FindChar(s, c) ==
    IF \E i \in 1..Len(s) : Char(s, i) = c
    THEN CHOOSE i \in 1..Len(s) :
             /\ Char(s, i) = c
             /\ \A j \in 1..(i - 1) : Char(s, j) # c
    ELSE 0

\* str.partition('\n'): the text before the first newline, and the text after it
partition_head(s) ==
    LET n == FindChar(s, "\n")
    IN  IF n = 0 THEN s ELSE SubSeq(s, 1, n - 1)

partition_tail(s) ==
    LET n == FindChar(s, "\n")
    IN  IF n = 0 THEN "" ELSE SubSeq(s, n + 1, Len(s))

\* str.splitlines(): the lines without their line ends, no empty last line
RECURSIVE splitlines(_)
splitlines(s) ==
    IF s = "" THEN << >>
    ELSE <<partition_head(s)>> \o splitlines(partition_tail(s))

\* iteration over a text file: the lines with their line ends kept
RECURSIVE readlines(_)
readlines(s) ==
    IF s = "" THEN << >>
    ELSE LET n == FindChar(s, "\n")
         IN  IF n = 0 THEN <<s>>
             ELSE <<SubSeq(s, 1, n)>> \o readlines(SubSeq(s, n + 1, Len(s)))

\* ''.join(parts[lo..hi]), by halves
RECURSIVE concat_range(_, _, _)
concat_range(parts, lo, hi) ==
    IF lo > hi THEN ""
    ELSE IF lo = hi THEN parts[lo]
    ELSE concat_range(parts, lo, (lo + hi) \div 2)
             \o concat_range(parts, (lo + hi) \div 2 + 1, hi)

\* ''.join(parts)
concat(parts) == concat_range(parts, 1, Len(parts))

\* '\n'.join(lines)
join_lines(lines) ==
    concat([i \in 1..Len(lines) |->
                IF i < Len(lines) THEN lines[i] \o "\n" ELSE lines[i]])

lower_char(c) ==
    IF c \in UPPER_CHARS
    THEN Char(ASCII_LOWER, FindChar(ASCII_UPPER, c))
    ELSE c

lower(s) == concat([i \in 1..Len(s) |-> lower_char(Char(s, i))])

\* int() of a string of decimal digits
RECURSIVE int(_)
int(s) ==
    IF s = "" THEN 0
    ELSE int(SubSeq(s, 1, Len(s) - 1)) * 10 + (FindChar(DIGITS, Char(s, Len(s))) - 1)

\* str() of a natural number
RECURSIVE str(_)
str(n) ==
    IF n < 10 THEN Char(DIGITS, n + 1)
    ELSE str(n \div 10) \o Char(DIGITS, (n % 10) + 1)

\* str.rjust(width, '0')
RECURSIVE rjust0(_, _)
rjust0(s, width) ==
    IF Len(s) >= width THEN s ELSE rjust0("0" \o s, width)

\* the length of the run of decimal digits that s starts with
RECURSIVE digit_run(_)
digit_run(s) ==
    IF s = "" \/ ~IsDigit(Char(s, 1)) THEN 0
    ELSE 1 + digit_run(SubSeq(s, 2, Len(s)))

\* str.replace('%', '%%')
double_percent(s) ==
    concat([i \in 1..Len(s) |-> IF Char(s, i) = "%" THEN "%%" ELSE Char(s, i)])

(***************************************************************************)
(* importpatches.py: constants                                             *)
(***************************************************************************)

PATCH_SECTION_START == "# (Patches taken from github.com/fedora-python/cpython)"

LEGACY_START_NUMBER == "# 00001 #"

LEGACY_START_SETUP ==
    "# Modules/Setup.dist is ultimately used by the \"makesetup\" script to construct"

PATCH_SECTION_STARTS ==
    {PATCH_SECTION_START, LEGACY_START_NUMBER, LEGACY_START_SETUP}

PATCH_SECTION_END == "# (New patches go here ^^^)"

\* SPECIAL_PATCH_NUMBERS as a set of <<filename, number>> pairs
SPECIAL_PATCH_NUMBERS ==
    { <<"python-2.7.1-config.patch", 0>>,
      <<"python-2.6-rpath.patch", 16>>,
      <<"python-2.6.4-distutils-rpath.patch", 17>> }

BUNDLED_VERSION_BLURB ==
    "\n# The following versions of setuptools/pip are bundled when this patch is not applied.\n"
    \o "# The versions are written in Lib/ensurepip/__init__.py, this patch removes them.\n"
    \o "# When the bundled setuptools/pip wheel is updated, the patch no longer applies cleanly.\n"
    \o "# In such cases, the patch needs to be amended and the versions updated here:\n"

\* the patch number whose patch carries the bundled versions
RPMWHEELS_PATCH_NUMBER == 189

\* the number of commits from which a range is refused
TOO_MANY_COMMITS == 100

\* the width of f'{number:05d}'
NUMBER_WIDTH == 5

(***************************************************************************)
(* importpatches.py: regular expressions                                   *)
(***************************************************************************)

\* PATCH_NUMBER_RE.match(summary).group(1), "" when there is no match
PATCH_NUMBER_RE(summary) ==
    LET n == digit_run(summary)
    IN  IF n >= 1 /\ Len(summary) > n /\ Char(summary, n + 1) = ":"
        THEN SubSeq(summary, 1, n)
        ELSE ""

\* re.sub(PATCH_NUMBER_RE, '', summary)
sub_patch_number(summary) ==
    IF PATCH_NUMBER_RE(summary) = "" THEN summary
    ELSE SubSeq(summary, Len(PATCH_NUMBER_RE(summary)) + 2, Len(summary))

\* FLIENAME_SAFE_RE.match(summary)
FLIENAME_SAFE_RE(summary) ==
    /\ summary # ""
    /\ \A i \in 1..Len(summary) :
           Char(summary, i) \in FILENAME_CHARS

\* re.search('\d{5}', message).group(0): five digits and no more
search_five_digits(message) ==
    LET starts == {i \in 1..Len(message) :
                       digit_run(SubSeq(message, i, Len(message))) >= NUMBER_WIDTH}
    IN  IF starts = {} THEN ""
        ELSE LET first == CHOOSE i \in starts : \A j \in starts : i <= j
             IN  SubSeq(message, first, first + NUMBER_WIDTH - 1)

\* re.search('\d{5,}', message).group(0), "" when there is no match
search_digits(message) ==
    LET starts == {i \in 1..Len(message) :
                       digit_run(SubSeq(message, i, Len(message))) >= NUMBER_WIDTH}
    IN  IF starts = {} THEN ""
        ELSE LET first == CHOOSE i \in starts : \A j \in starts : i <= j
             IN  SubSeq(message, first,
                        first + digit_run(SubSeq(message, first, Len(message))) - 1)

\* re.fullmatch(r'\(cherry picked from commit .{40}\)', line)
CHERRY_PREFIX == "(cherry picked from commit "

is_cherry_pick_line(line) ==
    /\ startswith(line, CHERRY_PREFIX)
    /\ endswith(line, ")")
    /\ Len(line) = Len(CHERRY_PREFIX) + 40 + 1

\* f'{number}': the number without padding
format_d(number) == str(number)

\* f'{number:05d}'
format_05d(number) == rjust0(str(number), NUMBER_WIDTH)

\* re.sub('[^a-z0-9_-]+', '-', s): every run of other characters becomes one '-'
sub_unsafe_runs(s, in_run) ==
    concat([i \in 1..Len(s) |->
                IF Char(s, i) \in SLUG_CHARS THEN Char(s, i)
                ELSE IF i = 1 THEN (IF in_run THEN "" ELSE "-")
                ELSE IF Char(s, i - 1) \in SLUG_CHARS THEN "-"
                ELSE ""])

\* the slug of the summary without its patch number
slugify_text(string) ==
    strip_hyphens(sub_unsafe_runs(lower(sub_patch_number(string)), FALSE))

slugify(string) == strip_hyphens(sub_unsafe_runs(lower(string), FALSE))

(***************************************************************************)
(* Git, as the scripts see it                                              *)
(***************************************************************************)

\* the diffs of the commits of the model
DIFF_A == "-old a\n+new a\n"

DIFF_B == "-old b\n+new b\n"

DIFF_C == "-old c\n+new c\n"

DIFF_WHEELS == "-_SETUPTOOLS_VERSION = \"65.5.0\"\n-_PIP_VERSION = \"22.3\"\n"

DIFF_WHEELS_TWICE == "-_PIP_VERSION = \"22.3\"\n-_PIP_VERSION = \"23.0\"\n"

\* git patch-id --stable: a fingerprint of the diff text alone
git_patch_id(diff) ==
    CASE diff = DIFF_A -> "a1a1a1"
      [] diff = DIFF_B -> "b2b2b2"
      [] diff = DIFF_C -> "c3c3c3"
      [] diff = DIFF_WHEELS -> "d4d4d4"
      [] diff = DIFF_WHEELS_TWICE -> "e5e5e5"
      [] OTHER -> "f6f6f6"

\* git format-patch --stdout -1: one mail holding the commit's message and diff
git_format_patch(commit) == [msg |-> commit.msg, diff |-> commit.diff]

\* the text of a mail as a patch file holds it
mail_text(mail) ==
    "Subject: [PATCH] " \o mail.msg \o "\n---\n" \o mail.diff

\* a file: a text file has a text, a patch file has mails
TextFile(text) == [text |-> text, mails |-> << >>]

PatchFile(mails) == [text |-> "", mails |-> mails]

RECURSIVE mbox_text(_)
mbox_text(mails) ==
    IF mails = << >> THEN "" ELSE mail_text(mails[1]) \o mbox_text(Tail(mails))

file_text(file) == IF file.mails = << >> THEN file.text ELSE mbox_text(file.mails)

(***************************************************************************)
(* importpatches.py: process_rpmwheels_patch                               *)
(***************************************************************************)

\* the length of the run of characters of chars that s starts with
RECURSIVE run_of(_, _)
run_of(s, chars) ==
    IF s = "" \/ Char(s, 1) \notin chars THEN 0
    ELSE 1 + run_of(SubSeq(s, 2, Len(s)), chars)

VERSION_INFIX == "_VERSION = \""

\* BUNDLED_VERSION_RE.match(line): <<name, version>>, << >> when there is no match
BUNDLED_VERSION_RE(line) ==
    IF ~startswith(line, "-_") THEN << >>
    ELSE LET rest == SubSeq(line, 3, Len(line))
             n == run_of(rest, UPPER_CHARS)
             after == SubSeq(rest, n + 1, Len(rest))
             value == SubSeq(after, Len(VERSION_INFIX) + 1, Len(after))
             v == run_of(value, VERSION_CHARS)
         IN  IF /\ n >= 1
                /\ startswith(after, VERSION_INFIX)
                /\ v >= 1
                /\ Len(value) > v
                /\ Char(value, v + 1) = "\""
             THEN <<SubSeq(rest, 1, n), SubSeq(value, 1, v)>>
             ELSE << >>

\* a < b for names made of capital letters
RECURSIVE name_less(_, _)
name_less(a, b) ==
    IF b = "" THEN FALSE
    ELSE IF a = "" THEN TRUE
    ELSE IF Char(a, 1) = Char(b, 1)
         THEN name_less(SubSeq(a, 2, Len(a)), SubSeq(b, 2, Len(b)))
         ELSE FindChar(ASCII_UPPER, Char(a, 1)) < FindChar(ASCII_UPPER, Char(b, 1))

\* the loop over the lines of the patch file: the versions dict as a set of
\* <<name, version>> pairs, and the name that appeared twice ("" if none did)
RECURSIVE scan_versions(_, _)
scan_versions(lines, versions) ==
    IF lines = << >> THEN [versions |-> versions, twice |-> ""]
    ELSE LET m == BUNDLED_VERSION_RE(strip(lines[1]))
         IN  IF m = << >> THEN scan_versions(Tail(lines), versions)
             ELSE IF \E e \in versions : e[1] = m[1]
                  THEN [versions |-> versions, twice |-> m[1]]
                  ELSE scan_versions(Tail(lines), versions \cup {m})

\* the lines '%global <name>_version <ver>\n' for sorted(versions.items())
RECURSIVE version_lines(_)
version_lines(versions) ==
    IF versions = {} THEN ""
    ELSE LET first == CHOOSE e \in versions :
                          \A o \in versions : o = e \/ name_less(e[1], o[1])
         IN  "%global " \o lower(first[1]) \o "_version " \o first[2] \o "\n"
                 \o version_lines(versions \ {first})

process_rpmwheels_patch(file) ==
    LET scan == scan_versions(readlines(file_text(file)), {})
    IN  IF scan.twice # ""
        THEN [exit |-> "Bundled version appears twice", trailer |-> ""]
        ELSE [exit |-> "",
              trailer |-> BUNDLED_VERSION_BLURB \o version_lines(scan.versions)]

(***************************************************************************)
(* importpatches.py: handle_patch                                          *)
(***************************************************************************)

\* Path('.').glob(f'{number:05d}-*.patch') over the names of a directory
glob_numbered(names, number) ==
    {f \in names :
         /\ startswith(f, format_05d(number) \o "-")
         /\ endswith(f, ".patch")
         /\ Len(f) >= Len(format_05d(number)) + 1 + Len(".patch")}

\* a glob that takes only the numbered patch files, '0*.patch'
glob_zero_patches(names) == {f \in names : endswith(f, ".patch") /\ startswith(f, "0")}

\* Path('.').glob('*.patch')
glob_patches(names) == {f \in names : endswith(f, ".patch")}

special_numbers(summary) == {e[2] : e \in {s \in SPECIAL_PATCH_NUMBERS : s[1] = summary}}

\* lines 68-93: the patch number and file name of a commit, or the exit
resolve_identity(message, names) ==
    LET summary == partition_head(message)
    IN  IF PATCH_NUMBER_RE(summary) # ""
        THEN LET number == int(PATCH_NUMBER_RE(summary))
                 paths == glob_numbered(names, number)
             IN  IF paths = {}
                 THEN [exit |-> "", number |-> number,
                       path |-> slugify(summary) \o ".patch"]
                 ELSE IF Cardinality(paths) = 1
                 THEN [exit |-> "", number |-> number,
                       path |-> CHOOSE f \in paths : TRUE]
                 ELSE [exit |-> "More than one patch file matches",
                       number |-> number, path |-> ""]
        ELSE IF endswith(summary, ".patch") /\ FLIENAME_SAFE_RE(summary)
        THEN IF search_digits(message) # ""
             THEN [exit |-> "", number |-> int(search_digits(message)),
                   path |-> summary]
             ELSE IF special_numbers(summary) # {}
             THEN [exit |-> "",
                   number |-> CHOOSE n \in special_numbers(summary) : TRUE,
                   path |-> summary]
             ELSE [exit |-> "Cannot find patch number", number |-> 0, path |-> ""]
        ELSE [exit |-> "Cannot derive patch filename", number |-> 0, path |-> ""]

\* the lines of the message body that go to the comment
RECURSIVE kept_body_lines(_)
kept_body_lines(lines) ==
    IF lines = << >> THEN << >>
    ELSE IF startswith(lower(lines[1]), "co-authored-by:") \/ is_cherry_pick_line(lines[1])
         THEN kept_body_lines(Tail(lines))
         ELSE <<lines[1]>> \o kept_body_lines(Tail(lines))

\* the comment when both styles are filtered
spec_comment_filtering_both(message, number) ==
    LET summary == partition_head(message)
        message_body == partition_tail(message)
    IN  IF endswith(summary, ".patch")
        THEN strip(join_lines(kept_body_lines(splitlines(
                 removeprefix(strip(message_body), format_05d(number) \o " #\n")))))
        ELSE strip(join_lines(<<sub_patch_number(summary)>>
                                  \o kept_body_lines(splitlines(message_body))))

\* lines 109-120 and 128: the comment of the patch
spec_comment(message, number) ==
    LET summary == partition_head(message)
        message_body == partition_tail(message)
    IN  IF endswith(summary, ".patch")
        THEN strip(removeprefix(strip(message_body), format_05d(number) \o " #\n"))
        ELSE strip(join_lines(<<sub_patch_number(summary)>>
                                  \o kept_body_lines(splitlines(message_body))))

\* handle_patch: the exit message ("" for a return), the PatchInformation
\* fields, and the patch file written to tempdir
handle_patch(commit, names) ==
    LET message == strip(commit.msg)
        id == resolve_identity(message, names)
        file == PatchFile(<<git_format_patch(commit)>>)
        wheels == IF id.number = RPMWHEELS_PATCH_NUMBER
                  THEN process_rpmwheels_patch(file)
                  ELSE [exit |-> "", trailer |-> ""]
    IN  IF id.exit # ""
        THEN [exit |-> id.exit, number |-> id.number, patch_id |-> "",
              comment |-> "", filename |-> "", trailer |-> "", file |-> file]
        ELSE [exit |-> wheels.exit,
              number |-> id.number,
              patch_id |-> git_patch_id(commit.diff),
              comment |-> spec_comment(message, id.number),
              filename |-> id.path,
              trailer |-> wheels.trailer,
              file |-> file]

\* lines 342-351: the block of one patch in the spec's patch section
RECURSIVE comment_lines(_)
comment_lines(lines) ==
    IF lines = << >> THEN << >>
    ELSE <<IF lines[1] # "" THEN "# " \o lines[1] ELSE "#">>
             \o comment_lines(Tail(lines))

patch_section(result) ==
    LET comment == join_lines(comment_lines(splitlines(result.comment)))
        section == "\n# " \o format_05d(result.number) \o " # " \o result.patch_id
                       \o "\n" \o double_percent(comment)
                       \o "\nPatch" \o str(result.number) \o ": " \o result.filename
                       \o "\n"
    IN  IF result.trailer # "" THEN rstrip(section) \o result.trailer ELSE section

(***************************************************************************)
(* Directories                                                             *)
(***************************************************************************)

EmptyDir == [f \in {} |-> TextFile("")]

write(dir, name, file) ==
    [f \in DOMAIN dir \cup {name} |-> IF f = name THEN file ELSE dir[f]]

remove(dir, name) == [f \in DOMAIN dir \ {name} |-> dir[f]]

\* the files of a that b lacks or holds differently go first, then all of b
overlay(a, b) ==
    [f \in DOMAIN a \cup DOMAIN b |-> IF f \in DOMAIN b THEN b[f] ELSE a[f]]

\* the log as git rev-list gives it, newest commit first
unreversed(seq) == seq

reversed(seq) == [i \in 1..Len(seq) |-> seq[Len(seq) + 1 - i]]

(***************************************************************************)
(* importpatches.py: the rewrite of the spec file (main, lines 354-377)    *)
(***************************************************************************)

\* one pass of the loop over the lines of the spec file
\* the loop body with the start marker written as it was found
rewrite_line_echoing_start(st, line, patches) ==
    LET echoing == IF rstrip(line) = PATCH_SECTION_END THEN TRUE ELSE st.echoing
    IN  IF rstrip(line) \in PATCH_SECTION_STARTS
        THEN IF st.found_start
             THEN [st EXCEPT !.out = st.out \o line,
                             !.exit = "Spec has multiple starts of section"]
             ELSE [st EXCEPT !.out = st.out \o line \o concat(patches) \o "\n",
                             !.found_start = TRUE,
                             !.echoing = FALSE]
        ELSE [st EXCEPT !.echoing = echoing,
                        !.out = IF echoing THEN st.out \o line ELSE st.out]

rewrite_line(st, line, patches) ==
    LET echoing == IF rstrip(line) = PATCH_SECTION_END THEN TRUE ELSE st.echoing
    IN  IF rstrip(line) \in PATCH_SECTION_STARTS
        THEN IF st.found_start
             THEN [st EXCEPT !.out = st.out \o PATCH_SECTION_START \o "\n",
                             !.exit = "Spec has multiple starts of section"]
             ELSE [st EXCEPT !.out = st.out \o PATCH_SECTION_START \o "\n"
                                         \o concat(patches) \o "\n",
                             !.found_start = TRUE,
                             !.echoing = FALSE]
        ELSE [st EXCEPT !.echoing = echoing,
                        !.out = IF echoing THEN st.out \o line ELSE st.out]

RECURSIVE rewrite_lines(_, _, _)
rewrite_lines(st, lines, patches) ==
    IF lines = << >> \/ st.exit # "" THEN st
    ELSE rewrite_lines(rewrite_line(st, lines[1], patches), Tail(lines), patches)

\* the rewrite without the check for the end of the section
rewrite_spec_unclosed(text, patches) ==
    LET st == rewrite_lines([echoing |-> TRUE, found_start |-> FALSE,
                             out |-> "", exit |-> ""],
                            readlines(text), patches)
    IN  IF st.exit # "" THEN st
        ELSE IF ~st.found_start
             THEN [st EXCEPT !.exit = "Patches section not found in spec file"]
        ELSE st

\* the rewritten text of the spec file, or the exit
rewrite_spec(text, patches) ==
    LET st == rewrite_lines([echoing |-> TRUE, found_start |-> FALSE,
                             out |-> "", exit |-> ""],
                            readlines(text), patches)
    IN  IF st.exit # "" THEN st
        ELSE IF ~st.found_start
             THEN [st EXCEPT !.exit = "Patches section not found in spec file"]
        ELSE IF ~st.echoing
             THEN [st EXCEPT !.exit = "End of patches section not found in spec file"]
        ELSE st

(***************************************************************************)
(* exportpatches.py: the spec file as main reads it (lines 128-220)        *)
(***************************************************************************)

\* the value of a variable that was never assigned
UNBOUND == "<unbound>"

\* the number of digits re.match("^Patch[0-9]{3}", line) asks for
PATCH_KEY_DIGITS == 3

\* lines 129-135: the Python version in the name of the spec file
RECURSIVE join_dots(_)
join_dots(s) ==
    IF Len(s) <= 1 THEN s ELSE Char(s, 1) \o "." \o join_dots(SubSeq(s, 2, Len(s)))

version_of_name(name) ==
    IF startswith(name, "python") /\ endswith(name, ".spec")
    THEN LET v == SubSeq(name, Len("python") + 1, Len(name) - Len(".spec"))
         IN  IF FindChar(v, ".") = 0 THEN join_dots(v) ELSE v
    ELSE UNBOUND

\* lines 167-187: the first '%global upstream_version' line, "" if none;
\* rpm --eval is taken to give the text after the macro's name
RECURSIVE find_upstream_version(_)
find_upstream_version(lines) ==
    IF lines = << >> THEN ""
    ELSE IF startswith(strip(lines[1]), "%global upstream_version")
         THEN strip(removeprefix(strip(lines[1]), "%global upstream_version"))
         ELSE find_upstream_version(Tail(lines))

\* re.search(r"[0-9]+", line).group(), "" when there is no match
RECURSIVE search_number(_)
search_number(line) ==
    IF line = "" THEN ""
    ELSE IF digit_run(line) > 0 THEN SubSeq(line, 1, digit_run(line))
    ELSE search_number(SubSeq(line, 2, Len(line)))

\* lines 189-201: the first line that starts with 'Release:', "" if none
RECURSIVE find_release_line(_)
find_release_line(lines) ==
    IF lines = << >> THEN ""
    ELSE IF startswith(strip(lines[1]), "Release:") THEN strip(lines[1])
    ELSE find_release_line(Tail(lines))

\* re.match("^Patch[0-9]{3}", line).group() without 'Patch', "" when no match
match_patch_key(line) ==
    IF /\ startswith(line, "Patch")
       /\ digit_run(SubSeq(line, Len("Patch") + 1, Len(line))) >= PATCH_KEY_DIGITS
    THEN SubSeq(line, Len("Patch") + 1, Len("Patch") + PATCH_KEY_DIGITS)
    ELSE ""

\* removeprefix(line, 'Patch[0-9]*: *', regex=True)
remove_directive_prefix(line) ==
    IF ~startswith(line, "Patch") THEN line
    ELSE LET rest == SubSeq(line, Len("Patch") + 1, Len(line))
             after == SubSeq(rest, digit_run(rest) + 1, Len(rest))
         IN  IF startswith(after, ":")
             THEN SubSeq(after, 2 + run_of(SubSeq(after, 2, Len(after)), {" "}),
                         Len(after))
             ELSE line

\* dict.update: the value of a key that is there is replaced in place
dict_update(dict, key, value) ==
    IF \E i \in 1..Len(dict) : dict[i][1] = key
    THEN [i \in 1..Len(dict) |-> IF dict[i][1] = key THEN <<key, value>> ELSE dict[i]]
    ELSE Append(dict, <<key, value>>)

\* lines 203-219: the patches dict as a sequence of <<key, value>> pairs in
\* insertion order, or the exit
RECURSIVE read_patches(_, _)
read_patches(lines, patches) ==
    IF lines = << >> THEN [exit |-> "", patches |-> patches]
    ELSE LET line == strip(lines[1])
         IN  IF ~startswith(line, "Patch")
             THEN read_patches(Tail(lines), patches)
             ELSE IF match_patch_key(line) = ""
             THEN [exit |-> "Patch number is missing.", patches |-> patches]
             ELSE read_patches(Tail(lines),
                               dict_update(patches, match_patch_key(line),
                                           remove_directive_prefix(line)))

\* str.rsplit('/', 1)[-1]
RECURSIVE last_component(_)
last_component(path) ==
    IF FindChar(path, "/") = 0 THEN path
    ELSE last_component(SubSeq(path, FindChar(path, "/") + 1, Len(path)))

\* re.compile(r"^[0-9]{5}:").match(message)
has_number_prefix(message) ==
    /\ Len(message) > NUMBER_WIDTH
    /\ digit_run(SubSeq(message, 1, NUMBER_WIDTH)) = NUMBER_WIDTH
    /\ Char(message, NUMBER_WIDTH + 1) = ":"

(***************************************************************************)
(* exportpatches.py: git                                                   *)
(***************************************************************************)

\* git am: every mail of the patch file becomes a commit
RECURSIVE commits_of(_)
commits_of(mails) ==
    IF mails = << >> THEN << >>
    ELSE <<[msg |-> mails[1].msg, diff |-> mails[1].diff]>> \o commits_of(Tail(mails))

\* git commit --amend -m: the message of the last commit is replaced
amend(commits, message) ==
    [commits EXCEPT ![Len(commits)] = [@ EXCEPT !.msg = message]]

\* git rev-parse HEAD^1: the history without its last commit
first_parent(commits) == SubSeq(commits, 1, Len(commits) - 1)

\* lines 278-289: the commit message is amended unless it starts with five
\* digits and a colon
with_number_prefix(commits, patch_number) ==
    LET stdout == commits[Len(commits)].msg
    IN  IF ~has_number_prefix(stdout)
        THEN amend(commits, rjust0(patch_number, NUMBER_WIDTH) \o ": " \o stdout)
        ELSE commits

\* the check with HEAD in the place of HEAD^1: some commit was made
some_commit_made(head_hash, commits) == head_hash # commits

\* lines 290-298: one patch made one commit
one_commit_made(head_hash, commits) == head_hash = first_parent(commits)

(***************************************************************************)
(* The state                                                               *)
(***************************************************************************)

VARIABLES
    pc,               \* the place of the import run in main
    run,              \* the number of the import run
    log,              \* git rev-list head ^base: the commits, newest first
    cwd,              \* the working directory: file name -> file
    cwd0,             \* the working directory as the run found it
    tempdir,          \* the temporary directory: file name -> file
    handled,          \* the number of commits handled
    results,          \* the PatchInformation records returned so far
    patches_section,  \* the blocks of the patch section built so far
    staged,           \* the files of tempdir when the replacement began
    err,              \* the message of the exit, "" if none
    ex,               \* the export run: its place in main and its variables
    repo,             \* the repository the export run works in
    repo0             \* the repository as the export run found it

vars == <<pc, run, log, cwd, cwd0, tempdir, handled, results, patches_section,
          staged, err, ex, repo, repo0>>

import_vars == <<pc, run, log, cwd0, tempdir, handled, results, patches_section,
                 staged, err, repo0>>

\* the name of the spec file
SPEC_NAME == "python3.9.spec"

(***************************************************************************)
(* Bounds and inputs                                                       *)
(***************************************************************************)

MaxCommits == 2

MaxSpecLines == 5

MaxRuns == 2

CHERRY_LINE == "(cherry picked from commit 0a1b2c3d4e5f6a7b8c9d0a1b2c3d4e5f6a7b8c9d)"

\* the commits that ranges are made of
Commits ==
    { [msg |-> "00005: Fix a\n\nFirst fix\nCo-authored-by: B <b@example.org>\n",
       diff |-> DIFF_A],
      [msg |-> "00005: Fix b\n", diff |-> DIFF_B],
      [msg |-> "00189: Instead of bundled wheels, use RPM packaged wheels\n",
       diff |-> DIFF_WHEELS],
      [msg |-> "00189: Wheels again\n", diff |-> DIFF_WHEELS_TWICE],
      [msg |-> "old-fix.patch\n\n" \o CHERRY_LINE \o "\nbug 12345 found\n",
       diff |-> DIFF_WHEELS],
      [msg |-> "Fix without a number\n", diff |-> DIFF_C],
      [msg |-> "00001: Fixup distutils\n\n00001 #\nOld comment\n", diff |-> DIFF_B] }

\* commits whose summaries all start with a patch number and a colon
NumberedCommits ==
    { [msg |-> "00005: Fix a\n", diff |-> DIFF_A],
      [msg |-> "00189: Instead of bundled wheels, use RPM packaged wheels\n",
       diff |-> DIFF_WHEELS],
      [msg |-> "251: Raw fix\n", diff |-> DIFF_B],
      [msg |-> "01234: One\n", diff |-> DIFF_C],
      [msg |-> "01235: Two\n", diff |-> DIFF_A] }

SeqsUpTo(S, n) == UNION {[1..k -> S] : k \in 0..n}

OLD_MAIL == [msg |-> "00005: Old fix\n", diff |-> DIFF_C]

\* the patch files the working directory may hold before the first run
PatchDirs ==
    { [f \in names |-> PatchFile(<<OLD_MAIL>>)] :
          names \in { {}, {"00005-old.patch"},
                      {"00005-old.patch", "00005-other.patch"},
                      {"00005-old.patch", "stale.patch"} } }

SPEC_HEADER == "%global upstream_version 3.9.0\nRelease: 2%{?dist}\n"

\* pieces of spec files
SPEC_LINES ==
    { "Name: python3.9\n",
      PATCH_SECTION_START \o "\n",
      LEGACY_START_NUMBER \o "  \n",
      PATCH_SECTION_END \o "\n" }

SpecTexts == {concat(pieces) : pieces \in SeqsUpTo(SPEC_LINES, MaxSpecLines)}

\* a few whole spec files
FewSpecTexts ==
    { SPEC_HEADER \o PATCH_SECTION_START \o "\n"
          \o "Patch1: 00001-rpath.patch\n" \o PATCH_SECTION_END \o "\n%build\n",
      "Name: python3.9\n" \o LEGACY_START_SETUP \o "\n"
          \o PATCH_SECTION_END \o " \n",
      "Name: python3.9\n" \o PATCH_SECTION_END \o "\n" }

FewLogs ==
    { << >>,
      <<[msg |-> "00005: Fix b\n", diff |-> DIFF_B],
        [msg |-> "old-fix.patch\n\nbug 12345 found\n", diff |-> DIFF_C]>> }

MaxPatches == 2

\* the patch files an exported spec file names
EXPORT_DIR ==
    [f \in {"00007-tweak.patch", "00189-wheels.patch", "raw.patch",
            "01234-one.patch", "01235-two.patch", "00329-series.patch"} |->
        CASE f = "00007-tweak.patch" ->
                 PatchFile(<<[msg |-> "00007: Tweak\n", diff |-> DIFF_A]>>)
          [] f = "00189-wheels.patch" ->
                 PatchFile(<<[msg |-> "00189: Wheels\n", diff |-> DIFF_WHEELS]>>)
          [] f = "raw.patch" ->
                 PatchFile(<<[msg |-> "Raw fix\n", diff |-> DIFF_B]>>)
          [] f = "01234-one.patch" ->
                 PatchFile(<<[msg |-> "01234: One\n", diff |-> DIFF_C]>>)
          [] f = "01235-two.patch" ->
                 PatchFile(<<[msg |-> "00042: Numbered otherwise\n", diff |-> DIFF_A]>>)
          [] OTHER ->
                 PatchFile(<<[msg |-> "00329: Series 1/2\n", diff |-> DIFF_B],
                             [msg |-> "00329: Series 2/2\n", diff |-> DIFF_C]>>)]

\* the Patch directives of exported spec files
DIRECTIVES ==
    { "Patch7: 00007-tweak.patch\n",
      "Patch189: 00189-wheels.patch\n",
      "Patch251: https://example.org/files/raw.patch\n",
      "Patch1234: 01234-one.patch\n",
      "Patch1235: 01235-two.patch\n",
      "Patch329: 00329-series.patch\n" }

ExportSpecTexts ==
    {SPEC_HEADER \o concat(lines) : lines \in SeqsUpTo(DIRECTIVES, MaxPatches)}

\* the options of an export run, "" for an option that is not given
NoOptions == [base |-> "", branch |-> "", tag |-> ""]

ExportOptions ==
    { NoOptions,
      [base |-> "v3.9.0", branch |-> "", tag |-> ""],
      [base |-> "v3.9.0", branch |-> "rebase", tag |-> "fedora-3.9.0-9"] }

\* the names the operator may give for a tag
TAG_NAMES == {"fedora-3.9.0-2", "fedora-3.9.0-3"}

STALE_COMMIT == [msg |-> "00001: Stale\n", diff |-> DIFF_A]

Repos ==
    { [clean |-> clean, current |-> "main", branches |-> branches, tags |-> tags,
       pushed |-> << >>] :
          clean \in BOOLEAN,
          branches \in { [b \in {"main"} |-> << >>],
                         [b \in {"main", "fedora-3.9"} |->
                              IF b = "main" THEN << >> ELSE <<STALE_COMMIT>>] },
          tags \in { {}, {"fedora-3.9.0-2"} } }

CleanRepo ==
    [clean |-> TRUE, current |-> "main", branches |-> [b \in {"main"} |-> << >>],
     tags |-> {}, pushed |-> << >>]

\* the export run before it starts
ExportRun(options, at) ==
    [pc |-> at, err |-> "", opt |-> options,
     base |-> options.base, branch |-> options.branch, tag |-> options.tag,
     upstream_version |-> UNBOUND, release |-> "", python_version |-> "",
     patches |-> << >>, k |-> 0, applied |-> 0]

(***************************************************************************)
(* importpatches.py: main                                                  *)
(***************************************************************************)

InitRun(logs, dirs, texts, repos) ==
    /\ log \in logs
    /\ \E dir \in dirs, text \in texts :
           cwd = write(dir, SPEC_NAME, TextFile(text))
    /\ cwd0 = cwd
    /\ pc = "start"
    /\ run = 1
    /\ tempdir = EmptyDir
    /\ handled = 0
    /\ results = << >>
    /\ patches_section = << >>
    /\ staged = EmptyDir
    /\ err = ""
    /\ ex = ExportRun(NoOptions, "idle")
    /\ repo \in repos
    /\ repo0 = repo

Init == InitRun(SeqsUpTo(Commits, MaxCommits), PatchDirs, FewSpecTexts, {CleanRepo})

InitRewrite ==
    InitRun(FewLogs, {d \in PatchDirs : Cardinality(DOMAIN d) = 1}, SpecTexts,
            {CleanRepo})

InitRoundTrip ==
    InitRun(SeqsUpTo(NumberedCommits, MaxCommits),
            {d \in PatchDirs : Cardinality(DOMAIN d) <= 1},
            {SPEC_HEADER \o PATCH_SECTION_START \o "\n" \o PATCH_SECTION_END \o "\n"},
            Repos)

\* long ranges: one commit many times over, around the number that is refused
LONG_COMMIT == [msg |-> "00005: Fix b\n", diff |-> DIFF_B]

LongLogs ==
    { [i \in 1..n |-> LONG_COMMIT] :
          n \in {1} \cup ((TOO_MANY_COMMITS - 1)..(TOO_MANY_COMMITS + 1)) }

InitLong ==
    InitRun(LongLogs, {d \in PatchDirs : Cardinality(DOMAIN d) <= 1},
            {SPEC_HEADER \o LEGACY_START_NUMBER \o "\n" \o PATCH_SECTION_END \o "\n"},
            {CleanRepo})

\* commits for the resolution of patch identities: numbers of several widths
\* and file names as summaries
ResolveCommits ==
    { [msg |-> "00042: Fix thing\n", diff |-> DIFF_WHEELS],
      [msg |-> "5: Unpadded\n\nCo-Authored-By: B <b@example.org>\nKept line\n"
                   \o CHERRY_LINE \o "\n",
       diff |-> DIFF_B],
      [msg |-> "0000005: Wide\n", diff |-> DIFF_C],
      [msg |-> "old-fix.patch\n\n" \o CHERRY_LINE
                   \o "\nCo-authored-by: B <b@example.org>\nbug 12345 found\n",
       diff |-> DIFF_C],
      [msg |-> "python-2.6-rpath.patch\n\nrpath fix\n", diff |-> DIFF_A],
      [msg |-> "fix-123456.patch\n\n123456 #\nLong number\n", diff |-> DIFF_B],
      [msg |-> "no-number.patch\n\nbug 1234 found\n", diff |-> DIFF_A],
      [msg |-> "Fix without a number\n\nbug 12345 found\n", diff |-> DIFF_C],
      [msg |-> "00189: Wheels quoted\n\nThe line that goes away is\n"
                   \o "    -_WHEEL_VERSION = \"0.40\"\n",
       diff |-> DIFF_WHEELS] }

InitResolve ==
    InitRun(SeqsUpTo(ResolveCommits, MaxCommits),
            {d \in PatchDirs : "stale.patch" \notin DOMAIN d},
            {SPEC_HEADER \o PATCH_SECTION_START \o "\n" \o PATCH_SECTION_END \o "\n"},
            {CleanRepo})

\* exit(message): the with statement removes the temporary directory
Exit(message) ==
    /\ pc' = "failed"
    /\ err' = message
    /\ tempdir' = EmptyDir

\* the commits of the range, refused with > in the place of >=
ListCommitsOffByOne ==
    /\ UNCHANGED <<ex, repo, repo0>>
    /\ pc = "start"
    /\ IF Len(log) > TOO_MANY_COMMITS
       THEN Exit("There are more than 100 patches")
       ELSE pc' = "patches" /\ UNCHANGED <<err, tempdir>>
    /\ UNCHANGED <<run, log, cwd, cwd0, handled, results, patches_section, staged>>

\* lines 310-335: the commits of the range, refused when there are too many
ListCommits ==
    /\ UNCHANGED <<ex, repo, repo0>>
    /\ pc = "start"
    /\ IF Len(log) >= TOO_MANY_COMMITS
       THEN Exit("There are more than 100 patches")
       ELSE pc' = "patches" /\ UNCHANGED <<err, tempdir>>
    /\ UNCHANGED <<run, log, cwd, cwd0, handled, results, patches_section, staged>>

\* one pass of the loop with the patch file written to the working directory
\* in the place of tempdir
HandlePatchInPlace ==
    /\ UNCHANGED <<ex, repo, repo0>>
    /\ pc = "patches"
    /\ handled < Len(log)
    /\ LET result == handle_patch(reversed(log)[handled + 1], DOMAIN cwd)
       IN  IF result.exit # ""
           THEN /\ Exit(result.exit)
                /\ UNCHANGED <<handled, results, patches_section, cwd>>
           ELSE /\ cwd' = write(cwd, result.filename, result.file)
                /\ handled' = handled + 1
                /\ results' = Append(results, [number |-> result.number,
                                               patch_id |-> result.patch_id,
                                               comment |-> result.comment,
                                               filename |-> result.filename,
                                               trailer |-> result.trailer])
                /\ patches_section' = Append(patches_section, patch_section(result))
                /\ UNCHANGED <<pc, err, tempdir>>
    /\ UNCHANGED <<run, log, cwd0, staged>>

\* lines 338-352: one pass of the loop over reversed(log)
HandlePatch ==
    /\ UNCHANGED <<ex, repo, repo0>>
    /\ pc = "patches"
    /\ handled < Len(log)
    /\ LET result == handle_patch(reversed(log)[handled + 1], DOMAIN cwd)
       IN  IF result.exit # ""
           THEN /\ Exit(result.exit)
                /\ UNCHANGED <<handled, results, patches_section>>
           ELSE /\ tempdir' = write(tempdir, result.filename, result.file)
                /\ handled' = handled + 1
                /\ results' = Append(results, [number |-> result.number,
                                               patch_id |-> result.patch_id,
                                               comment |-> result.comment,
                                               filename |-> result.filename,
                                               trailer |-> result.trailer])
                /\ patches_section' = Append(patches_section, patch_section(result))
                /\ UNCHANGED <<pc, err>>
    /\ UNCHANGED <<run, log, cwd, cwd0, staged>>

\* lines 354-379: the rewritten spec file is written to tempdir
RewriteSpec ==
    /\ UNCHANGED <<ex, repo, repo0>>
    /\ pc = "patches"
    /\ handled = Len(log)
    /\ LET st == rewrite_spec(file_text(cwd[SPEC_NAME]), patches_section)
       IN  IF st.exit # ""
           THEN Exit(st.exit) /\ UNCHANGED staged
           ELSE /\ tempdir' = write(tempdir, SPEC_NAME, TextFile(st.out))
                /\ staged' = tempdir'
                /\ pc' = IF glob_patches(DOMAIN cwd) = {} THEN "move" ELSE "unlink"
                /\ UNCHANGED err
    /\ UNCHANGED <<run, log, cwd, cwd0, handled, results, patches_section>>

\* lines 381-383: one existing patch file is removed
Unlink ==
    /\ UNCHANGED <<ex, repo, repo0>>
    /\ pc = "unlink"
    /\ \E path \in glob_patches(DOMAIN cwd) :
           /\ cwd' = remove(cwd, path)
           /\ pc' = IF glob_patches(DOMAIN cwd') = {} THEN "move" ELSE "unlink"
    /\ UNCHANGED <<run, log, cwd0, tempdir, handled, results, patches_section,
                   staged, err>>

\* lines 385-389: one file of tempdir is moved to the working directory
Move ==
    /\ UNCHANGED <<ex, repo, repo0>>
    /\ pc = "move"
    /\ \E path \in DOMAIN tempdir :
           /\ cwd' = write(cwd, path, tempdir[path])
           /\ tempdir' = remove(tempdir, path)
           /\ pc' = IF DOMAIN tempdir' = {} THEN "done" ELSE "move"
    /\ UNCHANGED <<run, log, cwd0, handled, results, patches_section, staged, err>>

\* lines 381-387: unlink or move raises, or the run is interrupted
Interrupted ==
    /\ UNCHANGED <<ex, repo, repo0>>
    /\ pc \in {"unlink", "move"}
    /\ Exit("interrupted")
    /\ UNCHANGED <<run, log, cwd, cwd0, handled, results, patches_section, staged>>

\* the script is run again over the same commits, in the directory it left
Rerun ==
    /\ UNCHANGED <<ex, repo, repo0>>
    /\ pc = "done"
    /\ run < MaxRuns
    /\ run' = run + 1
    /\ cwd0' = cwd
    /\ pc' = "start"
    /\ tempdir' = EmptyDir
    /\ handled' = 0
    /\ results' = << >>
    /\ patches_section' = << >>
    /\ staged' = EmptyDir
    /\ err' = ""
    /\ UNCHANGED <<log, cwd>>

(***************************************************************************)
(* exportpatches.py: main                                                  *)
(***************************************************************************)

\* "--python-version must be dot-separated integers": int(c) of every part
RECURSIVE dotted_integers(_)
dotted_integers(v) ==
    LET n == digit_run(v)
    IN  /\ n >= 1
        /\ \/ Len(v) = n
           \/ /\ Char(v, n + 1) = "."
              /\ dotted_integers(SubSeq(v, n + 2, Len(v)))

ExitExport(run_, message) == [run_ EXCEPT !.pc = "failed", !.err = message]

\* lines 116-220: the variables main takes from the name and text of the spec
read_spec(run_, name, text) ==
    LET lines == readlines(text)
        python_version == version_of_name(name)
        upstream_version == find_upstream_version(lines)
        release_line == find_release_line(lines)
        read == read_patches(lines, << >>)
    IN  IF python_version = UNBOUND
        THEN ExitExport(run_, "UsageError: version from spec name")
        ELSE IF ~dotted_integers(python_version)
        THEN ExitExport(run_, "UsageError: --python-version")
        ELSE IF run_.base = "" /\ upstream_version = ""
        THEN ExitExport(run_, "UsageError: tag of upstream release")
        ELSE IF release_line = ""
        THEN ExitExport(run_, "UsageError: release")
        ELSE IF search_number(release_line) = ""
        THEN ExitExport(run_, "AttributeError: release")
        ELSE IF read.exit # ""
        THEN ExitExport(run_, read.exit)
        ELSE [run_ EXCEPT
                 !.pc = "check_clean",
                 !.python_version = python_version,
                 !.upstream_version =
                     IF run_.base = "" THEN upstream_version ELSE UNBOUND,
                 !.base = IF run_.base = "" THEN "v" \o upstream_version ELSE run_.base,
                 !.release = search_number(release_line),
                 !.patches = read.patches]

ReadSpec ==
    /\ ex.pc = "read_spec"
    /\ ex' = read_spec(ex, SPEC_NAME, file_text(cwd[SPEC_NAME]))
    /\ UNCHANGED <<repo, cwd, import_vars>>

\* the check of the working tree with a git diff-index that may fail unseen
\* (check=False)
CheckCleanUnchecked ==
    /\ ex.pc = "check_clean"
    /\ ex' = [ex EXCEPT !.pc = "switch"]
    /\ UNCHANGED <<repo, cwd, import_vars>>

\* lines 226-236: git diff-index --quiet HEAD
CheckClean ==
    /\ ex.pc = "check_clean"
    /\ ex' = IF repo.clean
             THEN [ex EXCEPT !.pc = "switch"]
             ELSE ExitExport(ex, "Refusing to continue your cpython repository is not clean.")
    /\ UNCHANGED <<repo, cwd, import_vars>>

\* lines 238-260: git switch, or git switch -c when the operator agrees, then
\* git reset --hard base
SwitchBranch ==
    /\ ex.pc = "switch"
    /\ LET branch == IF ex.branch = "" THEN "fedora-" \o ex.python_version
                     ELSE ex.branch
       IN  \E create_branch \in {"y", "n"} :
               IF branch \in DOMAIN repo.branches \/ create_branch = "y"
               THEN /\ ex' = [ex EXCEPT !.pc = "apply", !.branch = branch]
                    /\ repo' = [repo EXCEPT
                                   !.current = branch,
                                   !.branches =
                                       [b \in DOMAIN repo.branches \cup {branch} |->
                                            IF b = branch THEN << >>
                                            ELSE repo.branches[b]]]
               ELSE /\ ex' = ExitExport([ex EXCEPT !.branch = branch],
                                        "git switch failed - the branch does not exist")
                    /\ UNCHANGED repo
    /\ UNCHANGED <<cwd, import_vars>>

\* one pass of the loop that resets the branch to the base when git am fails
ApplyPatchRollingBack ==
    /\ ex.pc = "apply"
    /\ ex.k < Len(ex.patches)
    /\ LET patch_number == ex.patches[ex.k + 1][1]
           patch_filename == last_component(ex.patches[ex.k + 1][2])
           mails == IF patch_filename \in DOMAIN cwd
                    THEN cwd[patch_filename].mails ELSE << >>
           head_hash == repo.branches[repo.current]
       IN  \E fail_at \in 0..Len(mails) :
               IF mails = << >> \/ fail_at > 0
               THEN /\ repo' = [repo EXCEPT !.branches[repo.current] = << >>]
                    /\ ex' = ExitExport(ex, "git am failed, are you sure that patches apply?")
               ELSE LET commits == with_number_prefix(head_hash \o commits_of(mails),
                                                      patch_number)
                    IN  /\ repo' = [repo EXCEPT !.branches[repo.current] = commits]
                        /\ ex' = IF one_commit_made(head_hash, commits)
                                 THEN [ex EXCEPT !.k = ex.k + 1,
                                                 !.applied = ex.applied + 1]
                                 ELSE ExitExport([ex EXCEPT !.applied = ex.applied + 1],
                                          "Multiple commits in one patch are not supported.")
    /\ UNCHANGED <<cwd, import_vars>>

\* lines 262-298: one pass of the loop over patches.items(); git am stops at
\* the mail fail_at (0: every mail applies)
ApplyPatch ==
    /\ ex.pc = "apply"
    /\ ex.k < Len(ex.patches)
    /\ LET patch_number == ex.patches[ex.k + 1][1]
           patch_filename == last_component(ex.patches[ex.k + 1][2])
           mails == IF patch_filename \in DOMAIN cwd
                    THEN cwd[patch_filename].mails ELSE << >>
           head_hash == repo.branches[repo.current]
       IN  \E fail_at \in 0..Len(mails) :
               IF mails = << >> \/ fail_at > 0
               THEN /\ repo' = [repo EXCEPT !.branches[repo.current] =
                                   head_hash \o commits_of(SubSeq(mails, 1, fail_at - 1))]
                    /\ ex' = ExitExport(ex, "git am failed, are you sure that patches apply?")
               ELSE LET commits == with_number_prefix(head_hash \o commits_of(mails),
                                                      patch_number)
                    IN  /\ repo' = [repo EXCEPT !.branches[repo.current] = commits]
                        /\ ex' = IF one_commit_made(head_hash, commits)
                                 THEN [ex EXCEPT !.k = ex.k + 1,
                                                 !.applied = ex.applied + 1]
                                 ELSE ExitExport([ex EXCEPT !.applied = ex.applied + 1],
                                          "Multiple commits in one patch are not supported.")
    /\ UNCHANGED <<cwd, import_vars>>

\* lines 300-301: the default tag
DefaultTag ==
    /\ ex.pc = "apply"
    /\ ex.k = Len(ex.patches)
    /\ ex' = IF ex.tag # "" THEN [ex EXCEPT !.pc = "tag"]
             ELSE IF ex.upstream_version = UNBOUND
             THEN ExitExport(ex, "NameError: upstream_version")
             ELSE [ex EXCEPT !.pc = "tag",
                             !.tag = "fedora-" \o ex.upstream_version \o "-" \o ex.release]
    /\ UNCHANGED <<repo, cwd, import_vars>>

\* git tag --list {tag}: the tags that match the pattern, a name without
\* wildcards here
git_tag_list(tags, pattern) == {t \in tags : t = pattern}

\* one pass of the loop that makes the tag without looking for it
TagStepUnchecked ==
    /\ ex.pc = "tag"
    /\ repo' = [repo EXCEPT !.tags = repo.tags \cup {ex.tag}]
    /\ ex' = [ex EXCEPT !.pc = "push"]
    /\ UNCHANGED <<cwd, import_vars>>

\* lines 303-333: one pass of the loop that looks for the tag, and git tag
TagStep ==
    /\ ex.pc = "tag"
    /\ \E c \in {"y", "n"}, name \in TAG_NAMES :
           IF \E repo_tag \in git_tag_list(repo.tags, ex.tag) :
                  startswith(repo_tag, ex.tag)
           THEN /\ ex' = IF c = "y" THEN [ex EXCEPT !.tag = name]
                         ELSE ExitExport(ex, "Exiting...")
                /\ UNCHANGED repo
           ELSE /\ repo' = [repo EXCEPT !.tags = repo.tags \cup {ex.tag}]
                /\ ex' = [ex EXCEPT !.pc = "push"]
    /\ UNCHANGED <<cwd, import_vars>>

\* lines 335-360: git push of the tag and of the branch, when the operator agrees
Push ==
    /\ ex.pc = "push"
    /\ \E c \in {"y", "n"} :
           IF c = "y"
           THEN /\ repo' = [repo EXCEPT !.pushed =
                               <<ex.tag, "fedora-" \o ex.python_version>>]
                /\ ex' = [ex EXCEPT !.pc = "done"]
           ELSE /\ ex' = ExitExport(ex, "Exiting...")
                /\ UNCHANGED repo
    /\ UNCHANGED <<cwd, import_vars>>

\* the export run starts in the directory a finished import run left
Handoff ==
    /\ pc = "done"
    /\ ex.pc = "idle"
    /\ ex' = [ex EXCEPT !.pc = "read_spec"]
    /\ UNCHANGED <<repo, cwd, import_vars>>

NextExport ==
    \/ ReadSpec
    \/ CheckClean
    \/ SwitchBranch
    \/ ApplyPatch
    \/ DefaultTag
    \/ TagStep
    \/ Push

InitExport ==
    /\ \E text \in ExportSpecTexts :
           cwd = write(EXPORT_DIR, SPEC_NAME, TextFile(text))
    /\ \E options \in ExportOptions : ex = ExportRun(options, "read_spec")
    /\ repo \in Repos
    /\ repo0 = repo
    /\ cwd0 = cwd
    /\ log = << >>
    /\ pc = "idle"
    /\ run = 1
    /\ tempdir = EmptyDir
    /\ handled = 0
    /\ results = << >>
    /\ patches_section = << >>
    /\ staged = EmptyDir
    /\ err = ""

SpecExport == InitExport /\ [][NextExport]_vars

NextRun ==
    \/ ListCommits
    \/ HandlePatch
    \/ RewriteSpec
    \/ Unlink
    \/ Move
    \/ Interrupted

Next == NextRun \/ Rerun

Spec == Init /\ [][Next]_vars

SpecRewrite == InitRewrite /\ [][NextRun]_vars

SpecLong == InitLong /\ [][NextRun]_vars

SpecResolve == InitResolve /\ [][NextRun]_vars

NextRoundTrip == NextRun \/ Handoff \/ NextExport

SpecRoundTrip == InitRoundTrip /\ [][NextRoundTrip]_vars

(***************************************************************************)
(* Properties                                                              *)
(***************************************************************************)

\* the lines of the spec file the run found
spec_lines0 == readlines(cwd0[SPEC_NAME].text)

StartLines(lines) == {i \in 1..Len(lines) : rstrip(lines[i]) \in PATCH_SECTION_STARTS}

EndLines(lines) == {i \in 1..Len(lines) : rstrip(lines[i]) = PATCH_SECTION_END}

\* exactly one start marker, and an end marker after it
OneSection(lines) ==
    /\ Cardinality(StartLines(lines)) = 1
    /\ \E s \in StartLines(lines), e \in EndLines(lines) : s < e

TheStart(lines) == CHOOSE s \in StartLines(lines) : TRUE

TheEnd(lines) ==
    CHOOSE e \in EndLines(lines) :
        /\ e > TheStart(lines)
        /\ \A o \in EndLines(lines) : o > TheStart(lines) => e <= o

Replacing == pc \in {"unlink", "move", "done"}

\* C1: for a spec file with exactly one start marker and an end marker after
\* it, the rewritten spec file is the lines before the start marker unchanged,
\* the canonical start marker, the generated patch blocks (and the empty line
\* that closes them), and the end-marker line with every line after it
\* unchanged; it is what the finished run leaves in the working directory.
C1_OnlySectionRewritten ==
    (Replacing /\ OneSection(spec_lines0)) =>
        /\ staged[SPEC_NAME].text =
               concat(SubSeq(spec_lines0, 1, TheStart(spec_lines0) - 1))
                   \o PATCH_SECTION_START \o "\n"
                   \o concat(patches_section) \o "\n"
                   \o concat(SubSeq(spec_lines0, TheEnd(spec_lines0), Len(spec_lines0)))
        /\ pc = "done" => cwd[SPEC_NAME] = staged[SPEC_NAME]

C1_Witness ==
    /\ pc = "done"
    /\ OneSection(spec_lines0)
    /\ TheStart(spec_lines0) > 1
    /\ rstrip(spec_lines0[TheStart(spec_lines0)]) = LEGACY_START_NUMBER
    /\ TheEnd(spec_lines0) > TheStart(spec_lines0) + 1
    /\ TheEnd(spec_lines0) < Len(spec_lines0)
    /\ Len(patches_section) = 2

\* C2: when the spec file has no start marker, two or more start markers, or a
\* start marker with no end marker after it, the run never reaches the
\* replacement of files, and the working directory stays as the run found it.
C2_BadSectionChangesNothing ==
    ~OneSection(spec_lines0) => (~Replacing /\ cwd = cwd0)

C2_Witness ==
    /\ pc = "failed"
    /\ err = "Spec has multiple starts of section"
    /\ handled = 2
    /\ glob_patches(DOMAIN cwd) # {}

\* the commits of the range whose patch identity cannot be resolved
Unresolved ==
    {i \in 1..Len(log) :
         resolve_identity(strip(reversed(log)[i].msg), DOMAIN cwd0).exit # ""}

IDENTITY_ERRORS ==
    {"More than one patch file matches", "Cannot find patch number",
     "Cannot derive patch filename"}

\* C3: when the patch identity of any commit of the range cannot be resolved,
\* the run never reaches the replacement of files and the working directory
\* stays as the run found it, also after earlier commits were staged; the run
\* ends with the resolver's message.
C3_UnresolvedChangesNothing ==
    /\ (Replacing \/ cwd # cwd0) => Unresolved = {}
    /\ (pc = "failed" /\ err \in IDENTITY_ERRORS) =>
           (cwd = cwd0 /\ handled + 1 \in Unresolved)

C3_Witness ==
    /\ pc = "failed"
    /\ err = "Cannot derive patch filename"
    /\ handled = 1
    /\ Len(log) = 2
    /\ glob_patches(DOMAIN cwd) # {}

\* the working directory a finished run leaves: the files that are no patch
\* files as they were, and the staged files
NewDir ==
    overlay([f \in {g \in DOMAIN cwd0 : ~endswith(g, ".patch")} |-> cwd0[f]], staged)

\* C4 as stated: in every state of a run the working directory is either as
\* the run found it or completely replaced.
C4_AtomicReplacement == cwd = cwd0 \/ cwd = NewDir

\* C4 as amended: the working directory is as the run found it until the
\* replacement begins and after every exit before it; a run that finishes
\* leaves exactly the files that are no patch files and the staged files.
\* During the replacement, and after a failure inside it, it may hold a mixture.
C4_ReplacedWhenDone ==
    /\ (pc \in {"start", "patches"} \/ (pc = "failed" /\ err # "interrupted")) =>
           cwd = cwd0
    /\ pc = "done" => cwd = NewDir

C4_Witness ==
    /\ pc = "done"
    /\ run = 1
    /\ "stale.patch" \in DOMAIN cwd0
    /\ "stale.patch" \notin DOMAIN cwd
    /\ Cardinality(glob_patches(DOMAIN cwd)) = 2

\* C5 as stated: no two PatchInformation records of a run that succeeds carry
\* the same number.
C5_UniqueNumbers ==
    pc = "done" =>
        \A i, j \in 1..Len(results) : i # j => results[i].number # results[j].number

\* C6 as stated: a second run over the same commits, in the directory the
\* first run left, succeeds and leaves the same spec file.
C6_Idempotent ==
    (run >= 2 /\ pc \in {"done", "failed"} /\ err # "interrupted") =>
        (pc = "done" /\ cwd[SPEC_NAME] = cwd0[SPEC_NAME])

\* the patch number of a commit message
number_of(message) == int(PATCH_NUMBER_RE(partition_head(strip(message))))

\* the commits of the branch the export run works on
branch_commits == repo.branches[repo.current]

Applied == ex.pc \in {"tag", "push", "done"}

\* the exits of an export run that the repository or the operator causes
OPERATOR_EXITS ==
    {"Refusing to continue your cpython repository is not clean.",
     "git switch failed - the branch does not exist",
     "git am failed, are you sure that patches apply?",
     "Exiting..."}

\* C7 as stated: export of what import wrote, for commits that all start with
\* a patch number in 1..99999, fails only for the repository's or the
\* operator's reasons, and rebuilds the commits' diffs in order, with their
\* patch numbers, one commit each.
C7_RoundTrip ==
    (pc = "done" /\ \A i \in 1..Len(log) : number_of(log[i].msg) \in 1..99999) =>
        /\ ex.pc = "failed" => ex.err \in OPERATOR_EXITS
        /\ Applied =>
               /\ Len(branch_commits) = Len(log)
               /\ \A i \in 1..Len(log) :
                      /\ branch_commits[i].diff = reversed(log)[i].diff
                      /\ number_of(branch_commits[i].msg) = number_of(reversed(log)[i].msg)

\* the Patch directives of a spec file, in file order: the number as written
\* and the file name or URL
RECURSIVE directives_of(_)
directives_of(lines) ==
    IF lines = << >> THEN << >>
    ELSE LET line == strip(lines[1])
             digits == SubSeq(line, Len("Patch") + 1,
                              Len("Patch") + digit_run(SubSeq(line, Len("Patch") + 1, Len(line))))
         IN  IF startswith(line, "Patch")
             THEN <<[number |-> digits,
                     file |-> strip(SubSeq(line, Len("Patch") + Len(digits) + 2, Len(line)))]>>
                      \o directives_of(Tail(lines))
             ELSE directives_of(Tail(lines))

directives0 == directives_of(spec_lines0)

\* the mail of the patch file a directive names
mail_of(directive) == cwd[last_component(directive.file)].mails[1]

\* C8 as stated: export takes every directive, and once the patches are
\* applied the i-th commit above the base comes from the i-th directive.
C8_FileOrder ==
    /\ ex.err # "Patch number is missing."
    /\ Applied =>
           /\ Len(branch_commits) = Len(directives0)
           /\ \A i \in 1..Len(directives0) :
                  branch_commits[i].diff = mail_of(directives0[i]).diff

\* C9 as stated: the message of the commit of an applied and verified patch
\* starts with the patch's own number, as five digits and a colon, and is the
\* patch file's message, amended exactly when that lacked this prefix.
C9_OwnNumberPrefix ==
    \A i \in 1..ex.k :
        i <= Len(directives0) =>
            LET prefix == format_05d(int(directives0[i].number)) \o ":"
                message == mail_of(directives0[i]).msg
            IN  branch_commits[i].msg =
                    IF startswith(message, prefix) THEN message
                    ELSE prefix \o " " \o message

MULTIPLE_COMMITS == "Multiple commits in one patch are not supported."

\* the number of mails in the patch file of the k-th entry of patches
mails_in(k) == Len(cwd[last_component(ex.patches[k][2])].mails)

\* C10: a patch that made more than one commit ends the run at once: no later
\* patch is applied, no tag is made, nothing is pushed, and the commits made
\* stay; so when export comes to the tag, the branch is the base and exactly
\* one commit for every applied patch.
C10_OnePatchOneCommit ==
    /\ Applied =>
           /\ Len(branch_commits) = Len(ex.patches)
           /\ ex.applied = Len(ex.patches)
           /\ \A i \in 1..Len(ex.patches) :
                  /\ mails_in(i) = 1
                  /\ branch_commits[i].diff =
                         cwd[last_component(ex.patches[i][2])].mails[1].diff
    /\ ex.err = MULTIPLE_COMMITS =>
           /\ ex.pc = "failed"
           /\ ex.k < Len(ex.patches)
           /\ mails_in(ex.k + 1) > 1
           /\ Len(branch_commits) = ex.k + mails_in(ex.k + 1)
           /\ repo.tags = repo0.tags
           /\ repo.pushed = << >>

C10_Witness ==
    /\ ex.err = MULTIPLE_COMMITS
    /\ ex.k = 1
    /\ Len(ex.patches) = 2
    /\ Len(branch_commits) = 3


RepoMutated == repo # repo0

\* C11: when the working tree of the repository is not clean, the export run
\* ends at the check of the working tree: no branch is switched to or made,
\* nothing is reset, no patch is applied or amended, no tag is made and
\* nothing is pushed.
C11_DirtyTreeUntouched ==
    ~repo0.clean =>
        /\ ~RepoMutated
        /\ ex.pc \in {"read_spec", "check_clean", "failed"}
        /\ ex.applied = 0
        /\ ex.pc = "failed" /\ ex.err \notin {"Patch number is missing."} =>
               ex.err = "Refusing to continue your cpython repository is not clean."

C11_Witness ==
    /\ ~repo0.clean
    /\ ex.pc = "failed"
    /\ ex.err = "Refusing to continue your cpython repository is not clean."
    /\ Len(ex.patches) = 2
    /\ "fedora-3.9" \in DOMAIN repo.branches


AM_FAILED == "git am failed, are you sure that patches apply?"

\* C12: when git am fails for a patch, the run ends there: the commits of the
\* patches before it stay on the branch, which is not reset, no later patch is
\* applied, no tag is made and nothing is pushed.
C12_FailedApplyKeepsCommits ==
    ex.err = AM_FAILED =>
        /\ ex.pc = "failed"
        /\ ex.k < Len(ex.patches)
        /\ ex.applied = ex.k
        /\ repo.current = ex.branch
        /\ Len(branch_commits) >= ex.k
        /\ \A i \in 1..ex.k :
               branch_commits[i].diff =
                   cwd[last_component(ex.patches[i][2])].mails[1].diff
        /\ repo.tags = repo0.tags
        /\ repo.pushed = << >>

C12_Witness ==
    /\ ex.err = AM_FAILED
    /\ ex.k = 1
    /\ Len(ex.patches) = 2
    /\ Len(branch_commits) = 1


TOO_MANY == "There are more than 100 patches"

written == directives_of(readlines(staged[SPEC_NAME].text))

WHEELS_TWICE == "Bundled version appears twice"

\* C14: the patch blocks of the rewritten section are in commit order, oldest
\* commit first (log lists the newest first), whatever the patch numbers are;
\* no run fails for the order of its numbers.
C14_CommitOrder ==
    /\ Replacing =>
           LET directives == written
           IN  /\ Len(directives) = Len(log)
               /\ Len(results) = Len(log)
               /\ \A i \in 1..Len(log) :
                      LET commit == log[Len(log) + 1 - i]
                      IN  /\ int(directives[i].number) =
                                 resolve_identity(strip(commit.msg), DOMAIN cwd0).number
                          /\ results[i].patch_id = git_patch_id(commit.diff)
                          /\ directives[i].file = results[i].filename
    /\ (pc = "failed" /\ err # "interrupted") =>
           \/ Unresolved # {}
           \/ ~OneSection(spec_lines0)
           \/ err = WHEELS_TWICE

C14_Witness ==
    /\ pc = "done"
    /\ Len(log) = 2
    /\ results[1].number > results[2].number
    /\ int(written[1].number) > int(written[2].number)


\* the commit that the i-th PatchInformation record was made from
commit_of(i) == log[Len(log) + 1 - i]

summary_of(commit) == partition_head(strip(commit.msg))

\* the summary starts with digits and a colon
NumericPrefixed(summary) ==
    digit_run(summary) >= 1 /\ startswith(SubSeq(summary, digit_run(summary) + 1, Len(summary)), ":")

\* a number as five digits, wider when it has more
five_digits(n) ==
    CASE n < 10 -> "0000" \o str(n)
      [] n >= 10 /\ n < 100 -> "000" \o str(n)
      [] n >= 100 /\ n < 1000 -> "00" \o str(n)
      [] n >= 1000 /\ n < 10000 -> "0" \o str(n)
      [] OTHER -> str(n)

\* the files NNNNN-*.patch the run found in the working directory
existing_for(n) ==
    {f \in DOMAIN cwd0 :
         /\ startswith(f, five_digits(n) \o "-")
         /\ endswith(f, ".patch")}

MORE_THAN_ONE == "More than one patch file matches"

\* C15: for a summary that starts with digits and a colon, the number is the
\* value of the digits, whatever their width; the file name is the one file
\* NNNNN-*.patch of the working directory when there is exactly one, a new
\* name made from the summary when there is none, and with more than one the
\* run ends.
C15_NumberAndFile ==
    /\ \A i \in 1..Len(results) :
           LET summary == summary_of(commit_of(i))
               number == int(SubSeq(summary, 1, digit_run(summary)))
           IN  NumericPrefixed(summary) =>
                   /\ results[i].number = number
                   /\ Cardinality(existing_for(number)) <= 1
                   /\ Cardinality(existing_for(number)) = 1 =>
                          results[i].filename \in existing_for(number)
                   /\ existing_for(number) = {} =>
                          results[i].filename = slugify(summary) \o ".patch"
    /\ (pc = "failed" /\ err = MORE_THAN_ONE) =>
           LET summary == summary_of(commit_of(handled + 1))
               number == int(SubSeq(summary, 1, digit_run(summary)))
           IN  NumericPrefixed(summary) /\ Cardinality(existing_for(number)) > 1

C15_Witness ==
    /\ pc = "done"
    /\ Len(log) = 2
    /\ summary_of(commit_of(1)) = "0000005: Wide"
    /\ summary_of(commit_of(2)) = "5: Unpadded"
    /\ results[1].number = 5
    /\ results[2].number = 5
    /\ results[1].filename = "00005-old.patch"
    /\ results[2].filename = "00005-old.patch"


\* the text of a numeric-prefixed summary after its number and colon
text_after_number(summary) ==
    SubSeq(summary, digit_run(summary) + 2, Len(summary))

\* C16 as stated: with no file NNNNN-*.patch in the working directory, the
\* file name is the slug of the summary without its number, and '.patch'.
C16_SlugWithoutNumber ==
    \A i \in 1..Len(results) :
        LET summary == summary_of(commit_of(i))
            number == int(SubSeq(summary, 1, digit_run(summary)))
        IN  (NumericPrefixed(summary) /\ existing_for(number) = {}) =>
                results[i].filename = slugify(text_after_number(summary)) \o ".patch"

\* C16 as amended: with no file NNNNN-*.patch in the working directory, the
\* file name is the slug of the whole summary, its number as written
\* included, and '.patch': '00042: Fix thing' gives number 42 and the file name
\* '00042-fix-thing.patch'.
C16_SlugOfSummary ==
    \A i \in 1..Len(results) :
        LET summary == summary_of(commit_of(i))
            digits == SubSeq(summary, 1, digit_run(summary))
        IN  (NumericPrefixed(summary) /\ existing_for(int(digits)) = {}) =>
                /\ results[i].filename =
                       digits \o "-" \o slugify(text_after_number(summary)) \o ".patch"
                /\ summary = "00042: Fix thing" =>
                       /\ results[i].number = 42
                       /\ results[i].filename = "00042-fix-thing.patch"

C16_Witness ==
    /\ pc = "done"
    /\ Len(log) = 1
    /\ summary_of(commit_of(1)) = "00042: Fix thing"
    /\ existing_for(42) = {}
    /\ results[1].number = 42
    /\ "00042-fix-thing.patch" \in DOMAIN cwd
    /\ "00042-fix-thing.patch" \notin DOMAIN cwd0


\* the summary is a file name of letters, digits, '.', '_' and '-' that ends
\* in '.patch'
LegacyStyle(summary) ==
    /\ endswith(summary, ".patch")
    /\ \A i \in 1..Len(summary) : Char(summary, i) \in FILENAME_CHARS

\* the positions of the message where a run of five or more digits starts
LongRuns(message) ==
    {p \in 1..Len(message) :
         /\ p = 1 \/ ~IsDigit(Char(message, p - 1))
         /\ digit_run(SubSeq(message, p, Len(message))) >= 5}

\* the value of the first run of five or more digits
first_long_run(message) ==
    LET p == CHOOSE q \in LongRuns(message) : \A o \in LongRuns(message) : q <= o
    IN  int(SubSeq(message, p, p + digit_run(SubSeq(message, p, Len(message))) - 1))

CANNOT_FIND == "Cannot find patch number"

CANNOT_DERIVE == "Cannot derive patch filename"

\* C17: for a summary that is a safe file name ending in '.patch', the number
\* is the first run of five or more digits of the whole message, else the
\* entry of the table for the summary, else the run ends; a summary that is
\* neither of the two shapes always ends the run.
C17_LegacyNumber ==
    /\ \A i \in 1..Len(results) :
           LET message == strip(commit_of(i).msg)
               summary == summary_of(commit_of(i))
           IN  /\ NumericPrefixed(summary) \/ LegacyStyle(summary)
               /\ LegacyStyle(summary) =>
                      /\ results[i].filename = summary
                      /\ LongRuns(message) # {} =>
                             results[i].number = first_long_run(message)
                      /\ LongRuns(message) = {} =>
                             <<summary, results[i].number>> \in SPECIAL_PATCH_NUMBERS
    /\ (pc = "failed" /\ err = CANNOT_FIND) =>
           LET message == strip(commit_of(handled + 1).msg)
               summary == summary_of(commit_of(handled + 1))
           IN  /\ LegacyStyle(summary)
               /\ LongRuns(message) = {}
               /\ \A e \in SPECIAL_PATCH_NUMBERS : e[1] # summary
    /\ (pc = "failed" /\ err = CANNOT_DERIVE) =>
           LET summary == summary_of(commit_of(handled + 1))
           IN  ~NumericPrefixed(summary) /\ ~LegacyStyle(summary)

C17_Witness ==
    /\ pc = "done"
    /\ Len(log) = 2
    /\ summary_of(commit_of(1)) = "python-2.6-rpath.patch"
    /\ results[1].number = 16
    /\ summary_of(commit_of(2)) = "fix-123456.patch"
    /\ results[2].number = 123456


\* a line of a comment is a Co-authored-by line or a cherry-pick line
Provenance(line) ==
    \/ startswith(lower(line), "co-authored-by:")
    \/ /\ startswith(line, "(cherry picked from commit ")
       /\ endswith(line, ")")
       /\ Len(line) = Len("(cherry picked from commit ") + 40 + 1

comment_of(i) == splitlines(results[i].comment)

body_of(commit) == strip(partition_tail(strip(commit.msg)))

diff_versions(diff) == scan_versions(readlines(diff), {})

\* C19: only the patch with number 189 has a trailer; its trailer is the fixed
\* comment and then one line '%global <name>_version <version>' for each name
\* of the removed version lines of the commit's diff, sorted by name; a run
\* ends for a version that appears twice exactly when a name is twice in the
\* diff; every other patch has an empty trailer.
C19_TrailerFromDiff ==
    /\ \A i \in 1..Len(results) :
           LET found == diff_versions(commit_of(i).diff)
           IN  IF results[i].number = RPMWHEELS_PATCH_NUMBER
               THEN /\ found.twice = ""
                    /\ results[i].trailer =
                           BUNDLED_VERSION_BLURB \o version_lines(found.versions)
               ELSE results[i].trailer = ""
    /\ (pc = "failed" /\ err = WHEELS_TWICE) =>
           diff_versions(commit_of(handled + 1).diff).twice # ""


PATCH_NUMBER_MISSING == "Patch number is missing."

\* C20: export takes every directive 'Patch<number>: <file or URL>', whatever
\* the width of its number, and once the spec file is read the patch of a
\* directive is kept under the whole number the directive has, so that
\* directives with different numbers are different patches.
C20_DirectiveNumbers ==
    /\ ~(ex.pc = "failed" /\ ex.err = PATCH_NUMBER_MISSING)
    /\ ex.pc \notin {"read_spec", "failed"} =>
           \A i \in 1..Len(directives0) :
               \E k \in 1..Len(ex.patches) :
                   /\ ex.patches[k][1] = directives0[i].number
                   /\ ex.patches[k][2] = directives0[i].file


\* the place of a step of export in the order of main
ExportRank(p) ==
    CASE p = "idle" -> 0
      [] p = "read_spec" -> 1
      [] p = "check_clean" -> 2
      [] p = "switch" -> 3
      [] p = "apply" -> 4
      [] p = "tag" -> 5
      [] p = "push" -> 6
      [] p = "done" -> 7
      [] p = "failed" -> 8

\* C21: the steps of export that change the repository come in the order
\* clean-tree check, switch to the branch (made when missing) with the reset
\* to the base, the patches one after the other, the tag, the push.  The tag
\* is made only once every patch is applied and verified and never under a
\* name found among the tags (the operator gives another name or the run
\* ends); the tag and the branch are pushed only in the step in which the
\* operator is asked, and a run that ends there with a refusal pushed nothing.
C21_StepOrder ==
    [][ /\ ExportRank(ex'.pc) >= ExportRank(ex.pc)
        /\ repo' # repo =>
               /\ repo.clean
               /\ ex.pc \in {"switch", "apply", "tag", "push"}
        /\ (repo'.branches # repo.branches \/ repo'.current # repo.current) =>
               ex.pc \in {"switch", "apply"}
        /\ (ex.pc = "switch" /\ ex'.pc = "apply") =>
               /\ repo'.current = ex'.branch
               /\ repo'.branches[ex'.branch] = << >>
               /\ ex'.k = 0
        /\ (ex.pc = "apply" /\ ex'.pc = "apply") =>
               /\ ex'.k = ex.k + 1
               /\ Len(repo'.branches[repo'.current]) = ex'.k
        /\ (ex.pc = "apply" /\ ex'.pc = "tag") =>
               /\ repo' = repo
               /\ ex.k = Len(ex.patches)
        /\ repo'.tags # repo.tags =>
               /\ ex.pc = "tag" /\ ex'.pc = "push"
               /\ ex.k = Len(ex.patches)
               /\ ex.applied = Len(ex.patches)
               /\ Len(repo.branches[repo.current]) = Len(ex.patches)
               /\ ex.tag \notin repo.tags
               /\ repo' = [repo EXCEPT !.tags = repo.tags \cup {ex.tag}]
        /\ (ex.pc = "tag" /\ ex.tag \in repo.tags) =>
               /\ repo' = repo
               /\ \/ ex'.pc = "failed"
                  \/ ex'.pc = "tag" /\ ex'.tag \in TAG_NAMES
        /\ repo'.pushed # repo.pushed =>
               /\ ex.pc = "push" /\ ex'.pc = "done"
               /\ ex.tag \in repo.tags
               /\ repo'.pushed[1] = ex.tag
        /\ (ex.pc = "push" /\ ex'.pc = "failed") =>
               /\ repo' = repo
               /\ repo.pushed = << >>
      ]_vars

C21_Witness ==
    /\ ex.pc = "done"
    /\ repo.pushed # << >>
    /\ Len(ex.patches) = 2
    /\ ex.applied = 2
    /\ repo0.tags = {"fedora-3.9.0-2"}
    /\ repo.tags = {"fedora-3.9.0-2", "fedora-3.9.0-3"}
    /\ ex.tag = "fedora-3.9.0-3"
    /\ "fedora-3.9" \notin DOMAIN repo0.branches


\* C22: the branch that export pushes is the branch it switched to, reset to
\* the base and applied the patches on, also when the operator names the
\* branch.
C22_PushedBranch ==
    repo.pushed # << >> =>
        /\ repo.pushed[2] = ex.branch
        /\ repo.pushed[2] = repo.current


UNBOUND_VERSION == "NameError: upstream_version"

\* C23: when export has applied and verified every patch and no tag name was
\* given, the default tag name is defined, also when the base was given: the
\* run does not end for the missing upstream version, and the tag it looks
\* for first is made of a version and the release.
C23_DefaultTagDefined ==
    (ex.opt.tag = "" /\ ex.k = Len(ex.patches)) =>
        /\ ~(ex.pc = "failed" /\ ex.err = UNBOUND_VERSION)
        /\ ex.pc \in {"tag", "push", "done"} => ex.upstream_version # UNBOUND


\* C24: after an import that succeeds, the patch files of the working
\* directory are the files the written Patch directives name, a different
\* file for every directive, and the file of a directive holds the diff of
\* the commit the directive was made from, whose patch id is in the
\* directive's header; no other patch file is left.
C24_OneFilePerDirective ==
    pc = "done" =>
        LET directives == written
        IN  /\ Len(directives) = Len(log)
            /\ glob_patches(DOMAIN cwd) =
                   {directives[i].file : i \in 1..Len(directives)}
            /\ \A i, j \in 1..Len(directives) :
                   i # j => directives[i].file # directives[j].file
            /\ \A i \in 1..Len(directives) :
                   /\ cwd[directives[i].file].mails =
                          <<git_format_patch(commit_of(i))>>
                   /\ results[i].patch_id =
                          git_patch_id(cwd[directives[i].file].mails[1].diff)


SECTION_ERRORS ==
    {"Spec has multiple starts of section",
     "Patches section not found in spec file",
     "End of patches section not found in spec file"}

\* the lines of the patch blocks a run generated
generated_lines == readlines(concat(patches_section))

\* C25: the spec file an import that succeeds leaves is taken by a later
\* import: it has exactly one start marker and an end marker after it, no
\* line of the generated patch blocks being a start marker or the end marker;
\* so a run over the directory an earlier run left never ends for the spec
\* file's section.
C25_WrittenSpecAccepted ==
    /\ pc = "done" =>
           /\ OneSection(readlines(cwd[SPEC_NAME].text))
           /\ \A k \in 1..Len(generated_lines) :
                  rstrip(generated_lines[k])
                      \notin PATCH_SECTION_STARTS \cup {PATCH_SECTION_END}
    /\ (run >= 2 /\ pc = "failed") => err \notin SECTION_ERRORS

====
